---- MODULE Spec2Model ----
(***************************************************************************)
(* A model of yark's Channel (src/yark/channel.py): the refresh of the     *)
(* three video collections from a metadata document with its deletion      *)
(* sweep, commit and load with the archive migration, the curation of      *)
(* undownloaded videos and the retrying download.                          *)
(*                                                                         *)
(* video.py, reporter.py and errors.py are not part of the sources at      *)
(* hand; Video, Element and Reporter are modelled from the specification   *)
(* (spec.md 3, 4.1, 4.2) and from the way channel.py uses them.            *)
(***************************************************************************)
EXTENDS Integers, Sequences, FiniteSets, TLC

VARIABLES
    proc,         \* "none": no Channel object yet, "open": one exists, "exited": sys.exit
    version,      \* Channel.version
    url,          \* Channel.url
    videos,       \* Channel.videos
    livestreams,  \* Channel.livestreams
    shorts,       \* Channel.shorts
    reporter,     \* Channel.reporter: [added, deleted], sequences of video references
    disk,         \* the content of <path>/yark.json, or NoFile
    bak,          \* the content of <path>/yark.bak, or NoFile
    files,        \* identifiers with a media file in <path>/videos
    dl,           \* the position of a running Channel.download, its locals, and
                  \* history: the skips and the engine calls of the current pass
    nrefresh,     \* refreshes made so far (bounded by MaxRefresh)
    ev,           \* history: the last operation, its input and the state before it
    trk,          \* history: refresh lineage of the archive in memory
    dtrk,         \* history: refresh lineage of the archive in yark.json
    rf            \* the position of a running Channel.metadata and its workers

vars == <<proc, version, url, videos, livestreams, shorts, reporter, disk, bak,
          files, dl, nrefresh, ev, trk, dtrk, rf>>

archive == <<version, url, videos, livestreams, shorts>>

-----------------------------------------------------------------------------
(* Bounds of the model *)

MaxEntries == 2        \* entries of a flat metadata document
MaxGroups == 2         \* groups of a nested metadata document
MaxGroupEntries == 1   \* entries of one group of a nested document
MaxRefresh == 3        \* refreshes in one behaviour
MaxDate == 2           \* upload dates are 1..MaxDate

(* Program constants *)

ARCHIVE_COMPAT == 3

(* A file that does not exist; no document; an Optional[int] without a value *)
NoFile == [missing |-> TRUE]
NoRes == [none |-> TRUE]
None == <<>>

Ids == {"a", "b"}
Titles == {"t1", "t2"}
Dates == 1..MaxDate
Kinds == {"videos", "livestreams", "shorts"}

SeqUpTo(S, n) == UNION {[1..k -> S] : k \in 0..n}

Max(S) == CHOOSE m \in S : \A o \in S : o <= m

Min(a, b) == IF a <= b THEN a ELSE b

Count(s, x) == Cardinality({k \in DOMAIN s : s[k] = x})

-----------------------------------------------------------------------------
(* Element: the timestamped history of one attribute (spec.md 4.1).  The   *)
(* snapshots are kept in order; their timestamps are left out.             *)

ElementNew(value) == <<value>>

Current(element) == element[Len(element)]

ElementUpdate(element, value) ==
    IF Current(element) # value THEN Append(element, value) ELSE element

-----------------------------------------------------------------------------
(* Video (spec.md 3, 4.2) *)

VideoNew(entry) ==
    [id |-> entry.id,
     uploaded |-> entry.upload_date,
     title |-> ElementNew(entry.title),
     deleted |-> ElementNew(FALSE),
     known_not_deleted |-> TRUE]

VideoUpdate(video, entry) ==
    [video EXCEPT !.title = ElementUpdate(@, entry.title),
                  !.deleted = ElementUpdate(@, FALSE),
                  !.known_not_deleted = TRUE]

VideoToDict(video) ==
    [id |-> video.id, uploaded |-> video.uploaded,
     title |-> video.title, deleted |-> video.deleted]

VideoFromDict(encoded) ==
    [id |-> encoded.id, uploaded |-> encoded.uploaded,
     title |-> encoded.title, deleted |-> encoded.deleted,
     known_not_deleted |-> FALSE]

VideoLt(a, b) == a.uploaded < b.uploaded

Downloaded(video, fs) == video.id \in fs

(* A reference to a Video object, as the reporter and the download hold it *)
Ref(kind, id) == [kind |-> kind, id |-> id]

-----------------------------------------------------------------------------
(* Metadata documents, as the extraction engine returns them *)

HasFormatsKey(entry) == "formats" \in DOMAIN entry

HasFormats(entry) == "formats" \in DOMAIN entry /\ Len(entry.formats) # 0

(* An entry with media formats *)
Entry(i, t, d) == [id |-> i, title |-> t, upload_date |-> d, formats |-> <<"mp4">>]

(* "a" is seen under two titles, "b" with any upload date; an upcoming     *)
(* video has an empty formats list ("a") or no formats key at all ("b").   *)
EntrySet ==
    {Entry("a", t, 1) : t \in Titles}
    \cup {Entry("b", "t1", d) : d \in Dates}
    \cup {[id |-> "a", title |-> "t1", upload_date |-> 1, formats |-> <<>>],
          [id |-> "b", title |-> "t1", upload_date |-> 1]}

(* One video has one title and one upload date within one document *)
Consistent(entries) ==
    \A j, k \in DOMAIN entries :
        (entries[j].id = entries[k].id /\ HasFormats(entries[j]) /\ HasFormats(entries[k]))
            => entries[j] = entries[k]

Sep == " - "

GroupTitles ==
    {<<"Chan", Sep, "Videos">>, <<"Chan", Sep, "x", Sep, "LIVE">>,
     <<"Shorts">>, <<"Chan", Sep, "Podcasts">>}

GroupEntrySet == {Entry("a", "t1", 1)}

Groups ==
    {[title |-> t, entries |-> l] :
        t \in GroupTitles, l \in SeqUpTo(GroupEntrySet, MaxGroupEntries) \ {<<>>}}

FlatDocs ==
    {[entries |-> l] : l \in {s \in SeqUpTo(EntrySet, MaxEntries) : Consistent(s)}}

NestedDocs == {[entries |-> gs] : gs \in SeqUpTo(Groups, MaxGroups) \ {<<>>}}

Docs == FlatDocs \cup NestedDocs

(* The documents of the specification with commit and load *)
PlainEntrySet == {Entry("a", "t1", 1), Entry("b", "t1", 1)}

ReloadDocs ==
    {d \in FlatDocs : \A k \in DOMAIN d.entries : d.entries[k] \in PlainEntrySet}

(* title.split(" - ")[-1] *)
LastSegment(title) ==
    LET seps == {k \in DOMAIN title : title[k] = Sep}
    IN  IF seps = {} THEN title ELSE SubSeq(title, Max(seps) + 1, Len(title))

(* str.lower() on the words of the model *)
LowerWord(w) ==
    CASE w = "Videos" -> "videos"
      [] w = "LIVE" -> "live"
      [] w = "Shorts" -> "shorts"
      [] w = "Podcasts" -> "podcasts"
      [] w = "Chan" -> "chan"
      [] OTHER -> w

Lower(s) == [k \in DOMAIN s |-> LowerWord(s[k])]

KindOf(title) == Lower(LastSegment(title))

KnownKind(kind) == kind \in {<<"videos">>, <<"live">>, <<"shorts">>}

IsNested(res) == "entries" \in DOMAIN res.entries[1]

RECURSIVE NormalizeGroups(_, _, _)
NormalizeGroups(groups, k, acc) ==
    IF k > Len(groups) THEN acc
    ELSE LET kind == KindOf(groups[k].title)
         IN  NormalizeGroups(groups, k + 1,
                IF kind = <<"videos">> THEN [acc EXCEPT !.videos = groups[k].entries]
                ELSE IF kind = <<"live">> THEN [acc EXCEPT !.livestreams = groups[k].entries]
                ELSE IF kind = <<"shorts">> THEN [acc EXCEPT !.shorts = groups[k].entries]
                ELSE [acc EXCEPT !.errors = @ + 1])

(* The first part of _parse_metadata: the three entry lists of a document. *)
(* errors counts the calls of _err_msg, which prints and returns.          *)
Normalize(res) ==
    LET empty == [videos |-> <<>>, livestreams |-> <<>>, shorts |-> <<>>, errors |-> 0]
    IN  IF ~IsNested(res) THEN [empty EXCEPT !.videos = res.entries]
        ELSE NormalizeGroups(res.entries, 1, empty)

-----------------------------------------------------------------------------
(* The merge of one category and the deletion sweep *)

IndexOfIdNotFound(bucket, id) == 0

IndexOfId(bucket, id) ==
    LET hits == {k \in DOMAIN bucket : bucket[k].id = id}
    IN  IF hits = {} THEN 0 ELSE CHOOSE k \in hits : \A o \in hits : k <= o

RECURSIVE InsertNewestBeforeEqual(_, _)
InsertNewestBeforeEqual(sorted, video) ==
    IF sorted = <<>> THEN <<video>>
    ELSE IF ~VideoLt(video, Head(sorted)) THEN <<video>> \o sorted
    ELSE <<Head(sorted)>> \o InsertNewestBeforeEqual(Tail(sorted), video)

RECURSIVE InsertNewest(_, _)
InsertNewest(sorted, video) ==
    IF sorted = <<>> THEN <<video>>
    ELSE IF VideoLt(Head(sorted), video) THEN <<video>> \o sorted
    ELSE <<Head(sorted)>> \o InsertNewest(Tail(sorted), video)

RECURSIVE SortFrom(_, _, _)
SortFrom(bucket, k, sorted) ==
    IF k > Len(bucket) THEN sorted
    ELSE SortFrom(bucket, k + 1, InsertNewest(sorted, bucket[k]))

(* bucket.sort(reverse=True): newest first, equal videos keep their order *)
SortNewest(bucket) == SortFrom(bucket, 1, <<>>)

RECURSIVE MergeEntries(_, _, _, _, _)
MergeEntries(i, k, bucket, added, kind) ==
    IF k > Len(i) THEN [bucket |-> bucket, added |-> added]
    ELSE LET entry == i[k]
             ind == IndexOfId(bucket, entry.id)
         IN  IF ~HasFormats(entry) THEN MergeEntries(i, k + 1, bucket, added, kind)
             ELSE IF ind # 0
                  THEN MergeEntries(i, k + 1,
                           [bucket EXCEPT ![ind] = VideoUpdate(@, entry)], added, kind)
                  ELSE MergeEntries(i, k + 1, Append(bucket, VideoNew(entry)),
                           Append(added, Ref(kind, entry.id)), kind)

ParseMetadataVideosComp(i, bucket, added, kind) ==
    LET m == MergeEntries(i, 1, bucket, added, kind)
    IN  [bucket |-> SortNewest(m.bucket), added |-> m.added]

RECURSIVE SweepFrom(_, _, _, _)
SweepFrom(bucket, k, deleted, kind) ==
    IF k > Len(bucket) THEN [bucket |-> bucket, deleted |-> deleted]
    ELSE IF Current(bucket[k].deleted) = FALSE /\ ~bucket[k].known_not_deleted
         THEN SweepFrom([bucket EXCEPT ![k].deleted = ElementUpdate(@, TRUE)], k + 1,
                  Append(deleted, Ref(kind, bucket[k].id)), kind)
         ELSE SweepFrom(bucket, k + 1, deleted, kind)

ReportDeleted(bucket, deleted, kind) == SweepFrom(bucket, 1, deleted, kind)

(* _parse_metadata on a document with at least one entry: the archive and  *)
(* the reporter after it.                                                  *)
ParseMetadata(res, vs, ls, ss, rep) ==
    LET n  == Normalize(res)
        mv == ParseMetadataVideosComp(n.videos, vs, rep.added, "videos")
        ml == ParseMetadataVideosComp(n.livestreams, ls, mv.added, "livestreams")
        ms == ParseMetadataVideosComp(n.shorts, ss, ml.added, "shorts")
        dv == ReportDeleted(mv.bucket, rep.deleted, "videos")
        dl_ == ReportDeleted(ml.bucket, dv.deleted, "livestreams")
        ds == ReportDeleted(ms.bucket, dl_.deleted, "shorts")
    IN  [videos |-> dv.bucket, livestreams |-> dl_.bucket, shorts |-> ds.bucket,
         reporter |-> [added |-> ms.added, deleted |-> ds.deleted],
         errors |-> n.errors]

-----------------------------------------------------------------------------
(* The archive document (yark.json) and its migration *)

UrlPrefix == "https://www.youtube.com/channel/"

ToDict(ver, u, vs, ls, ss) ==
    [version |-> ver, url |-> u,
     videos |-> [k \in DOMAIN vs |-> VideoToDict(vs[k])],
     livestreams |-> [k \in DOMAIN ls |-> VideoToDict(ls[k])],
     shorts |-> [k \in DOMAIN ss |-> VideoToDict(ss[k])]]

FromDict(encoded) ==
    [version |-> encoded.version, url |-> encoded.url,
     videos |-> [k \in DOMAIN encoded.videos |-> VideoFromDict(encoded.videos[k])],
     livestreams |->
        [k \in DOMAIN encoded.livestreams |-> VideoFromDict(encoded.livestreams[k])],
     shorts |-> [k \in DOMAIN encoded.shorts |-> VideoFromDict(encoded.shorts[k])]]

SetKey(d, key, value) == [f \in DOMAIN d \cup {key} |-> IF f = key THEN value ELSE d[f]]

DelKey(d, key) == [f \in DOMAIN d \ {key} |-> d[f]]

AddDeletedAsGone(list) ==
    [k \in DOMAIN list |-> SetKey(list[k], "deleted", ElementNew(TRUE))]

(* video["deleted"] = Element.new(Video._new_empty(), False)._to_dict() *)
AddDeleted(list) == [k \in DOMAIN list |-> SetKey(list[k], "deleted", ElementNew(FALSE))]

(* From version 1 to version 2 *)
Migrate1(encoded) ==
    SetKey(SetKey(DelKey(SetKey(encoded, "url", UrlPrefix \o encoded.id), "id"),
                  "livestreams", <<>>), "shorts", <<>>)

(* From version 2 to version 3 *)
Migrate2(encoded) ==
    SetKey(SetKey(SetKey(encoded, "videos", AddDeleted(encoded.videos)),
                  "livestreams", AddDeleted(encoded.livestreams)),
           "shorts", AddDeleted(encoded.shorts))

(* The step taken from version cur, which left the document as doc *)
Step(cur, doc) == [from |-> cur, doc |-> doc]

RECURSIVE MigrateStepStaleVersion(_, _, _, _)
MigrateStepStaleVersion(cur, expected_version, encoded, steps) ==
    IF cur = expected_version
    THEN [exit |-> FALSE, encoded |-> encoded, steps |-> steps]
    ELSE IF cur = 1
    THEN LET doc == SetKey(Migrate1(encoded), "version", cur)
         IN  MigrateStepStaleVersion(cur + 1, expected_version, doc,
                                     Append(steps, Step(cur, doc)))
    ELSE IF cur = 2
    THEN LET doc == SetKey(Migrate2(encoded), "version", cur)
         IN  MigrateStepStaleVersion(cur + 1, expected_version, doc,
                                     Append(steps, Step(cur, doc)))
    ELSE [exit |-> TRUE, encoded |-> encoded, steps |-> steps]

RECURSIVE MigrateStepNoExit(_, _, _, _)
MigrateStepNoExit(cur, expected_version, encoded, steps) ==
    IF cur = expected_version
    THEN [exit |-> FALSE, encoded |-> encoded, steps |-> steps]
    ELSE IF cur = 1
    THEN LET doc == SetKey(Migrate1(encoded), "version", cur + 1)
         IN  MigrateStepNoExit(cur + 1, expected_version, doc,
                               Append(steps, Step(cur, doc)))
    ELSE IF cur = 2
    THEN LET doc == SetKey(Migrate2(encoded), "version", cur + 1)
         IN  MigrateStepNoExit(cur + 1, expected_version, doc,
                               Append(steps, Step(cur, doc)))
    ELSE IF cur < expected_version
    THEN MigrateStepNoExit(cur + 1, expected_version,
                           SetKey(encoded, "version", cur + 1), steps)
    ELSE [exit |-> FALSE, encoded |-> encoded, steps |-> steps]

(* migrate_step.  steps lists the steps taken, each with the document as   *)
(* it left it; exit: the unknown version branch, which ends in sys.exit(1) *)
RECURSIVE MigrateStep(_, _, _, _)
MigrateStep(cur, expected_version, encoded, steps) ==
    IF cur = expected_version
    THEN [exit |-> FALSE, encoded |-> encoded, steps |-> steps]
    ELSE IF cur = 1
    THEN LET doc == SetKey(Migrate1(encoded), "version", cur + 1)
         IN  MigrateStep(cur + 1, expected_version, doc, Append(steps, Step(cur, doc)))
    ELSE IF cur = 2
    THEN LET doc == SetKey(Migrate2(encoded), "version", cur + 1)
         IN  MigrateStep(cur + 1, expected_version, doc, Append(steps, Step(cur, doc)))
    ELSE [exit |-> TRUE, encoded |-> encoded, steps |-> steps]

MigrateArchive(current_version, expected_version, encoded) ==
    MigrateStep(current_version, expected_version, encoded, <<>>)

(* The decoding part of Channel.load, on the document read from yark.json *)
LoadDocAlwaysMigrates(encoded) ==
    LET m == MigrateArchive(encoded.version, ARCHIVE_COMPAT, encoded)
    IN  [exit |-> m.exit, encoded |-> m.encoded, steps |-> m.steps, migrated |-> TRUE]

(* migrated: _migrate_archive was called *)
LoadDoc(encoded) ==
    IF encoded.version # ARCHIVE_COMPAT
    THEN LET m == MigrateArchive(encoded.version, ARCHIVE_COMPAT, encoded)
         IN  [exit |-> m.exit, encoded |-> m.encoded, steps |-> m.steps, migrated |-> TRUE]
    ELSE [exit |-> FALSE, encoded |-> encoded, steps |-> <<>>, migrated |-> FALSE]

BackupHeader == "// Backup of a Yark archive"

BackupKeepsFirst(live, old) ==
    IF live = NoFile \/ old # NoFile THEN old ELSE [comment |-> BackupHeader, body |-> live]

(* _backup: yark.bak after it *)
Backup(live, old) ==
    IF live = NoFile THEN old ELSE [comment |-> BackupHeader, body |-> live]

-----------------------------------------------------------------------------
(* History variables *)

Keys == Kinds \X Ids

NoLineage == [res |-> NoRes, ph |-> [key \in Keys |-> 0], apps |-> [key \in Keys |-> 0]]

IdleDl == [pc |-> "idle"]

(* No Channel.metadata is running and no worker thread exists *)
IdleRf == [pc |-> "idle", workers |-> {}, log |-> <<>>]

AllEntries(res) ==
    IF res.entries = <<>> THEN {}
    ELSE IF IsNested(res)
    THEN UNION {{res.entries[g].entries[k] : k \in DOMAIN res.entries[g].entries} :
                    g \in DOMAIN res.entries}
    ELSE {res.entries[k] : k \in DOMAIN res.entries}

(* The identifier occurs nowhere in the document *)
Absent(res, id) == \A e \in AllEntries(res) : e.id # id

(* The entries of a category that survive the formats filter *)
Observed(res, kind) ==
    LET l == Normalize(res)[kind]
    IN  {l[k].id : k \in {j \in DOMAIN l : HasFormats(l[j])}}

Bucket(kind) ==
    IF kind = "videos" THEN videos
    ELSE IF kind = "livestreams" THEN livestreams ELSE shorts

(* The lineage after a completed refresh of document res that found the    *)
(* deleted bucket as before and left it as after.  ph: 1 = merged by the   *)
(* latest refresh, 2 = merged by the one before and absent from the        *)
(* latest, 3 = absent from the latest two; apps: the appends to the        *)
(* deleted bucket made by the refreshes that omitted the item.             *)
Lineage(old, res, before, after) ==
    LET ph == [key \in Keys |->
                 IF key[2] \in Observed(res, key[1]) THEN 1
                 ELSE IF Absent(res, key[2]) /\ old.ph[key] \in {1, 2}
                      THEN old.ph[key] + 1 ELSE 0]
        new(key) == Count(after, Ref(key[1], key[2])) - Count(before, Ref(key[1], key[2]))
    IN  [res |-> res, ph |-> ph,
         apps |-> [key \in Keys |->
                     IF ph[key] = 2 THEN new(key)
                     ELSE IF ph[key] = 3 THEN old.apps[key] + new(key) ELSE 0]]

Snapshot == [videos |-> videos, livestreams |-> livestreams, shorts |-> shorts,
             reporter |-> reporter]

-----------------------------------------------------------------------------
(* Operations on the archive *)

ChannelUrl == UrlPrefix \o "UC1"

(* No download and no refresh is running *)
Quiet == dl.pc \in {"idle", "done"} /\ rf.pc = "idle"

(* yark.json after Channel.load, which only reads it *)
DiskAfterLoadMigrated(live, encoded) == encoded

DiskAfterLoad(live, encoded) == live

(* Channel.new: an empty channel, committed at once *)
New(u) ==
    /\ proc \in {"none", "open"}
    /\ Quiet
    /\ proc' = "open"
    /\ version' = ARCHIVE_COMPAT
    /\ url' = u
    /\ videos' = <<>>
    /\ livestreams' = <<>>
    /\ shorts' = <<>>
    /\ reporter' = [added |-> <<>>, deleted |-> <<>>]
    /\ bak' = Backup(disk, bak)
    /\ disk' = ToDict(ARCHIVE_COMPAT, u, <<>>, <<>>, <<>>)
    /\ trk' = NoLineage
    /\ dtrk' = NoLineage
    /\ ev' = [op |-> "new", live |-> disk, bak |-> bak]
    /\ UNCHANGED <<files, dl, nrefresh, rf>>

(* Channel.commit *)
Commit ==
    /\ proc = "open"
    /\ Quiet
    /\ bak' = Backup(disk, bak)
    /\ disk' = ToDict(version, url, videos, livestreams, shorts)
    /\ dtrk' = trk
    /\ ev' = [op |-> "commit", live |-> disk, bak |-> bak]
    /\ UNCHANGED <<proc, archive, reporter, files, dl, nrefresh, trk, rf>>

(* Channel.load of an archive that has no yark.json: it raises *)
LoadNotFound ==
    /\ proc \in {"none", "open"}
    /\ Quiet
    /\ disk = NoFile
    /\ ev' = [op |-> "load_raise"]
    /\ UNCHANGED <<proc, archive, reporter, disk, bak, files, dl, nrefresh, trk, dtrk, rf>>

(* Channel.load of a document whose migration ends in sys.exit(1) *)
LoadExit ==
    /\ proc \in {"none", "open"}
    /\ Quiet
    /\ disk # NoFile
    /\ LoadDoc(disk).exit
    /\ proc' = "exited"
    /\ ev' = [op |-> "load_exit", stored |-> disk.version, steps |-> LoadDoc(disk).steps,
              pre |-> Snapshot]
    /\ UNCHANGED <<archive, reporter, disk, bak, files, dl, nrefresh, trk, dtrk, rf>>

(* Channel.load that returns a channel *)
LoadOk ==
    /\ proc \in {"none", "open"}
    /\ Quiet
    /\ disk # NoFile
    /\ ~LoadDoc(disk).exit
    /\ LET r == LoadDoc(disk)
           c == FromDict(r.encoded)
       IN  /\ version' = c.version
           /\ url' = c.url
           /\ videos' = c.videos
           /\ livestreams' = c.livestreams
           /\ shorts' = c.shorts
           /\ ev' = [op |-> "load", stored |-> disk.version, steps |-> r.steps,
                     encoded |-> r.encoded, migrated |-> r.migrated, live |-> disk,
                     bak |-> bak]
    /\ proc' = "open"
    /\ reporter' = [added |-> <<>>, deleted |-> <<>>]
    /\ trk' = dtrk
    /\ disk' = DiskAfterLoad(disk, LoadDoc(disk).encoded)
    /\ UNCHANGED <<bak, files, dl, nrefresh, dtrk, rf>>

MetadataTries == 3

RetryingMetadataUntilSecond(i) == i # 1

(* retrying = i != 2 *)
RetryingMetadata(i) == i # 2

(* _download_metadata from pass i of its loop, when the engine fails the   *)
(* first fails calls: the calls of the engine and the sleeps of _err_dl,   *)
(* and how it ends: res returned, sys.exit(1) in _err_dl, or the loop left *)
RECURSIVE DownloadMetadataFrom(_, _, _)
DownloadMetadataFrom(i, fails, waits) ==
    IF i >= MetadataTries
    THEN [returned |-> FALSE, exit |-> FALSE, calls |-> i, waits |-> waits]
    ELSE IF i >= fails
    THEN [returned |-> TRUE, exit |-> FALSE, calls |-> i + 1, waits |-> waits]
    ELSE IF RetryingMetadata(i)
    THEN DownloadMetadataFrom(i + 1, fails, waits + 1)
    ELSE [returned |-> FALSE, exit |-> TRUE, calls |-> i + 1, waits |-> waits]

DownloadMetadata(fails) == DownloadMetadataFrom(0, fails, 0)

(* Channel.metadata when _download_metadata ends the process:              *)
(* future.result() raises its SystemExit, _parse_metadata is not reached   *)
MetadataExit(fails) ==
    /\ proc = "open"
    /\ Quiet
    /\ nrefresh < MaxRefresh
    /\ DownloadMetadata(fails).exit
    /\ proc' = "exited"
    /\ nrefresh' = nrefresh + 1
    /\ ev' = [op |-> "refresh_exit", fails |-> fails, pre |-> Snapshot,
              calls |-> DownloadMetadata(fails).calls,
              waits |-> DownloadMetadata(fails).waits]
    /\ UNCHANGED <<archive, reporter, disk, bak, files, dl, trk, dtrk, rf>>

(* Channel.metadata with a document that has no entry at all:              *)
(* res["entries"][0] raises and nothing was changed                        *)
MetadataRaises ==
    /\ proc = "open"
    /\ Quiet
    /\ nrefresh < MaxRefresh
    /\ nrefresh' = nrefresh + 1
    /\ ev' = [op |-> "refresh_raise"]
    /\ UNCHANGED <<proc, archive, reporter, disk, bak, files, dl, trk, dtrk, rf>>

(* Channel.metadata: the engine returns res, _parse_metadata merges it *)
Metadata(res, fails) ==
    /\ proc = "open"
    /\ Quiet
    /\ nrefresh < MaxRefresh
    /\ DownloadMetadata(fails).returned
    /\ res.entries # <<>>
    /\ LET p == ParseMetadata(res, videos, livestreams, shorts, reporter)
       IN  /\ videos' = p.videos
           /\ livestreams' = p.livestreams
           /\ shorts' = p.shorts
           /\ reporter' = p.reporter
           /\ trk' = Lineage(trk, res, reporter.deleted, p.reporter.deleted)
           /\ ev' = [op |-> "refresh", res |-> res, same |-> (res = trk.res),
                     pre |-> Snapshot, errors |-> p.errors, fails |-> fails,
                     calls |-> DownloadMetadata(fails).calls,
                     waits |-> DownloadMetadata(fails).waits]
    /\ nrefresh' = nrefresh + 1
    /\ UNCHANGED <<proc, version, url, disk, bak, files, dl, dtrk, rf>>

Init ==
    /\ proc = "none"
    /\ version = 0
    /\ url = ""
    /\ videos = <<>>
    /\ livestreams = <<>>
    /\ shorts = <<>>
    /\ reporter = [added |-> <<>>, deleted |-> <<>>]
    /\ disk = NoFile
    /\ bak = NoFile
    /\ files = {}
    /\ dl = IdleDl
    /\ nrefresh = 0
    /\ ev = [op |-> "init"]
    /\ trk = NoLineage
    /\ dtrk = NoLineage
    /\ rf = IdleRf

(* One session: refreshes of a channel in memory *)
Next ==
    \/ New(ChannelUrl)
    \/ MetadataRaises
    \/ \E res \in Docs : Metadata(res, 0)

Spec == Init /\ [][Next]_vars

(* Refreshes with commits and loads between them *)
NextReload ==
    \/ New(ChannelUrl)
    \/ Commit
    \/ LoadNotFound
    \/ LoadOk
    \/ MetadataRaises
    \/ \E res \in ReloadDocs : Metadata(res, 0)

SpecReload == Init /\ [][NextReload]_vars

(* Refreshes whose metadata fetch fails some calls of the engine *)
MaxFails == 4

NextFetch ==
    \/ New(ChannelUrl)
    \/ MetadataRaises
    \/ \E res \in ReloadDocs, fails \in 0..MaxFails : Metadata(res, fails)
    \/ \E fails \in 0..MaxFails : MetadataExit(fails)

SpecFetch == Init /\ [][NextFetch]_vars

-----------------------------------------------------------------------------
(* Curation *)

(* An item of the curated list: the Video at position ind of a collection *)
Item(kind, ind) == [kind |-> kind, ind |-> ind]

RECURSIVE SelectFrom(_, _, _, _)
SelectFrom(bucket, k, last, fs) ==
    IF k > last THEN {}
    ELSE (IF ~Downloaded(bucket[k], fs) THEN {k} ELSE {}) \cup SelectFrom(bucket, k + 1, last, fs)

RECURSIVE Ascending(_)
Ascending(S) ==
    IF S = {} THEN <<>>
    ELSE LET m == CHOOSE x \in S : \A y \in S : x <= y
         IN  <<m>> \o Ascending(S \ {m})

(* fixed_maximum = min(max(len(videos) - 1, 0), maximum) *)
FixedMaximum(len, maximum) == Min(IF len - 1 > 0 THEN len - 1 ELSE 0, maximum)

CurateListNoFilter(bucket, maximum, fs, kind) ==
    [k \in 1..Len(bucket) |-> Item(kind, k)]

(* curate_list: the positions of the videos it returns, in order *)
CurateList(bucket, maximum, fs, kind) ==
    LET last == IF maximum # None
                THEN LET m == FixedMaximum(Len(bucket), maximum[1])
                     IN  IF m > 0 THEN m ELSE 0
                ELSE Len(bucket)
        picks == Ascending(SelectFrom(bucket, 1, last, fs))
    IN  [k \in DOMAIN picks |-> Item(kind, picks[k])]

(* _curate *)
Curate(config, vs, ls, ss, fs) ==
    CurateList(vs, config.max_videos, fs, "videos")
        \o CurateList(ls, config.max_livestreams, fs, "livestreams")
        \o CurateList(ss, config.max_shorts, fs, "shorts")

-----------------------------------------------------------------------------
(* Download *)

MaxAttempts == 5

(* The retrying argument of _err_dl in download *)
RetryingUntilLast(i) == i # 3

Retrying(i) == i # 4

VideoAt(item) == Bucket(item.kind)[item.ind]

IdsOf(list) == {VideoAt(list[k]).id : k \in DOMAIN list}

SkipVideoKeep(list, fs) ==
    LET hits == {k \in DOMAIN list : ~Downloaded(VideoAt(list[k]), fs)}
        ind  == CHOOSE k \in hits : \A o \in hits : k <= o
    IN  IF hits = {} THEN [raised |-> TRUE]
        ELSE [raised |-> FALSE, videos |-> SubSeq(list, ind, Len(list)), video |-> list[ind]]

(* _skip_video: the list after the first undownloaded video, and that video *)
SkipVideo(list, fs) ==
    LET hits == {k \in DOMAIN list : ~Downloaded(VideoAt(list[k]), fs)}
        ind  == CHOOSE k \in hits : \A o \in hits : k <= o
    IN  IF hits = {} THEN [raised |-> TRUE]
        ELSE [raised |-> FALSE, videos |-> SubSeq(list, ind + 1, Len(list)), video |-> list[ind]]

(* The fetch engine works through the urls in order and raises at the      *)
(* first one it cannot fetch: the videos before it have a media file by    *)
(* then, the failing one has none.                                         *)
EngineFails(list, k, fs) ==
    /\ k \in DOMAIN list
    /\ VideoAt(list[k]).id \notin fs \cup IdsOf(SubSeq(list, 1, k - 1))

FilesAfter(list, k, fs) == fs \cup IdsOf(SubSeq(list, 1, k - 1))

(* One pass of the outer loop up to the call of the engine: curate, and    *)
(* leave the loop when there is nothing to download                        *)
Attempt(d, i, fs) ==
    LET not_downloaded == Curate(d.config, videos, livestreams, shorts, fs)
    IN  [d EXCEPT !.pc = IF Len(not_downloaded) = 0 THEN "done" ELSE "fetch",
                  !.i = i,
                  !.not_downloaded = not_downloaded,
                  !.curated = not_downloaded,
                  !.skips = <<>>,
                  !.calls = 0,
                  !.curates = @ + 1]

SetDeleted(kind, ind) ==
    /\ videos' = IF kind = "videos"
                 THEN [videos EXCEPT ![ind].deleted = ElementUpdate(@, TRUE)] ELSE videos
    /\ livestreams' = IF kind = "livestreams"
                 THEN [livestreams EXCEPT ![ind].deleted = ElementUpdate(@, TRUE)]
                 ELSE livestreams
    /\ shorts' = IF kind = "shorts"
                 THEN [shorts EXCEPT ![ind].deleted = ElementUpdate(@, TRUE)] ELSE shorts

DlSnapshot == [list |-> dl.not_downloaded, i |-> dl.i, curated |-> dl.curated,
               calls |-> dl.calls, videos |-> videos,
               livestreams |-> livestreams, shorts |-> shorts, reporter |-> reporter,
               files |-> files]

(* Channel.download up to its first call of the engine *)
DownloadStart(config) ==
    /\ proc = "open"
    /\ dl.pc = "idle"
    /\ dl' = Attempt([pc |-> "idle", i |-> 0, config |-> config, not_downloaded |-> <<>>,
                      curated |-> <<>>, skips |-> <<>>, curates |-> 0, waits |-> 0,
                      others |-> 0, found |-> {}, calls |-> 0], 0, files)
    /\ ev' = [op |-> "download"]
    /\ UNCHANGED <<proc, archive, reporter, disk, bak, files, nrefresh, trk, dtrk, rf>>

(* ydl.download(urls) returns: both loops are left *)
FetchOk ==
    /\ proc = "open"
    /\ dl.pc = "fetch"
    /\ files' = files \cup IdsOf(dl.not_downloaded)
    /\ dl' = [dl EXCEPT !.pc = "done", !.calls = @ + 1]
    /\ ev' = [op |-> "dl_ok", pre |-> DlSnapshot]
    /\ UNCHANGED <<proc, archive, reporter, disk, bak, nrefresh, trk, dtrk, rf>>

(* ydl.download(urls) raises "Private video" or "removed by the uploader"  *)
(* at the k-th url                                                         *)
FetchPrivate(k) ==
    /\ proc = "open"
    /\ dl.pc = "fetch"
    /\ EngineFails(dl.not_downloaded, k, files)
    /\ files' = FilesAfter(dl.not_downloaded, k, files)
    /\ LET s == SkipVideo(dl.not_downloaded, files')
       IN  /\ ~s.raised
           /\ dl' = [dl EXCEPT !.not_downloaded = s.videos,
                               !.calls = @ + 1,
                               !.skips = Append(@, [item |-> s.video, why |-> "deleted",
                                                    warning |-> FALSE]),
                               !.found = @ \cup {s.video}]
           /\ IF Current(VideoAt(s.video).deleted) = FALSE
              THEN /\ reporter' = [reporter EXCEPT
                                     !.deleted = Append(@, Ref(s.video.kind, VideoAt(s.video).id))]
                   /\ SetDeleted(s.video.kind, s.video.ind)
              ELSE UNCHANGED <<reporter, videos, livestreams, shorts>>
    /\ ev' = [op |-> "dl_private", k |-> k, failed |-> dl.not_downloaded[k], pre |-> DlSnapshot]
    /\ UNCHANGED <<proc, version, url, disk, bak, nrefresh, trk, dtrk, rf>>

FetchNoFormatAsDeleted(k) ==
    /\ proc = "open"
    /\ dl.pc = "fetch"
    /\ EngineFails(dl.not_downloaded, k, files)
    /\ files' = FilesAfter(dl.not_downloaded, k, files)
    /\ LET s == SkipVideo(dl.not_downloaded, files')
       IN  /\ ~s.raised
           /\ dl' = [dl EXCEPT !.not_downloaded = s.videos,
                               !.calls = @ + 1,
                               !.skips = Append(@, [item |-> s.video, why |-> "no format",
                                                    warning |-> TRUE])]
           /\ IF Current(VideoAt(s.video).deleted) = FALSE
              THEN /\ reporter' = [reporter EXCEPT
                                     !.deleted = Append(@, Ref(s.video.kind, VideoAt(s.video).id))]
                   /\ SetDeleted(s.video.kind, s.video.ind)
              ELSE UNCHANGED <<reporter, videos, livestreams, shorts>>
    /\ ev' = [op |-> "dl_noformat", k |-> k, failed |-> dl.not_downloaded[k], pre |-> DlSnapshot]
    /\ UNCHANGED <<proc, version, url, disk, bak, nrefresh, trk, dtrk, rf>>

(* ydl.download(urls) raises " bytes, expected " at the k-th url *)
FetchNoFormat(k) ==
    /\ proc = "open"
    /\ dl.pc = "fetch"
    /\ EngineFails(dl.not_downloaded, k, files)
    /\ files' = FilesAfter(dl.not_downloaded, k, files)
    /\ LET s == SkipVideo(dl.not_downloaded, files')
       IN  /\ ~s.raised
           /\ dl' = [dl EXCEPT !.not_downloaded = s.videos,
                               !.calls = @ + 1,
                               !.skips = Append(@, [item |-> s.video, why |-> "no format",
                                                    warning |-> TRUE])]
    /\ ev' = [op |-> "dl_noformat", k |-> k, failed |-> dl.not_downloaded[k], pre |-> DlSnapshot]
    /\ UNCHANGED <<proc, archive, reporter, disk, bak, nrefresh, trk, dtrk, rf>>

(* ydl.download(urls) raises anything else at the k-th url: _err_dl, which *)
(* sleeps before the next pass of the outer loop or ends the process       *)
FetchOther(k) ==
    /\ proc = "open"
    /\ dl.pc = "fetch"
    /\ EngineFails(dl.not_downloaded, k, files)
    /\ files' = FilesAfter(dl.not_downloaded, k, files)
    /\ IF Retrying(dl.i)
       THEN /\ proc' = proc
            /\ dl' = IF dl.i + 1 < MaxAttempts
                     THEN Attempt([dl EXCEPT !.waits = @ + 1, !.others = @ + 1],
                                  dl.i + 1, files')
                     ELSE [dl EXCEPT !.waits = @ + 1, !.others = @ + 1, !.pc = "done",
                                     !.calls = @ + 1]
       ELSE /\ proc' = "exited"
            /\ dl' = [dl EXCEPT !.others = @ + 1, !.pc = "exited", !.calls = @ + 1]
    /\ ev' = [op |-> "dl_other", k |-> k, pre |-> DlSnapshot]
    /\ UNCHANGED <<archive, reporter, disk, bak, nrefresh, trk, dtrk, rf>>

-----------------------------------------------------------------------------
(* The archives, media files and configurations a download starts from *)

MaxItems == 3          \* videos of the largest collection
MaxMaximum == 3        \* the largest configured maximum

DlIds == <<"a", "b", "c", "d", "e">>

Stored(id, flag) ==
    [id |-> id, uploaded |-> 1, title |-> ElementNew("t1"),
     deleted |-> IF flag THEN <<FALSE, TRUE>> ELSE ElementNew(FALSE),
     known_not_deleted |-> FALSE]

(* The first n identifiers, those of gone flagged deleted *)
StoredBucket(n, gone) == [k \in 1..n |-> Stored(DlIds[k], DlIds[k] \in gone)]

OptInt == {None} \cup {<<n>> : n \in 0..MaxMaximum}

DownloadConfig(mv, ml, ms) == [max_videos |-> mv, max_livestreams |-> ml, max_shorts |-> ms]

Configs == {DownloadConfig(mv, ml, ms) : mv \in OptInt, ml \in OptInt, ms \in OptInt}

DlConfigs == {DownloadConfig(None, None, None), DownloadConfig(<<2>>, <<0>>, <<0>>)}

InitArchive(nv, nl, ns, gone, fs) ==
    /\ proc = "open"
    /\ version = ARCHIVE_COMPAT
    /\ url = ChannelUrl
    /\ videos = StoredBucket(nv, gone)
    /\ livestreams = StoredBucket(nl, gone)
    /\ shorts = StoredBucket(ns, gone)
    /\ reporter = [added |-> <<>>, deleted |-> <<>>]
    /\ disk = ToDict(version, url, videos, livestreams, shorts)
    /\ bak = NoFile
    /\ files = fs
    /\ dl = IdleDl
    /\ nrefresh = 0
    /\ ev = [op |-> "init"]
    /\ trk = NoLineage
    /\ dtrk = NoLineage
    /\ rf = IdleRf

InitDownload ==
    \E nv \in 0..MaxItems, nl \in 0..1, ns \in 0..1, gone \in SUBSET {"b"}, fs \in SUBSET {"a"} :
        InitArchive(nv, nl, ns, gone, fs)

NextDownload ==
    \/ \E config \in DlConfigs : DownloadStart(config)
    \/ FetchOk
    \/ \E k \in 1..(3 * MaxItems) : FetchPrivate(k)
    \/ \E k \in 1..(3 * MaxItems) : FetchNoFormat(k)
    \/ \E k \in 1..(3 * MaxItems) : FetchOther(k)

SpecDownload == InitDownload /\ [][NextDownload]_vars

(* _curate on its own *)
CurateCall(config) ==
    /\ proc = "open"
    /\ Quiet
    /\ ev.op # "curate"
    /\ ev' = [op |-> "curate", config |-> config,
              result |-> Curate(config, videos, livestreams, shorts, files)]
    /\ UNCHANGED <<proc, archive, reporter, disk, bak, files, dl, nrefresh, trk, dtrk, rf>>

InitCurate ==
    \E nv \in 0..MaxItems, nl \in 0..MaxItems, ns \in 0..1, fs \in SUBSET {"a", "b", "c"} :
        InitArchive(nv, nl, ns, {}, fs)

NextCurate == \E config \in Configs : CurateCall(config)

SpecCurate == InitCurate /\ [][NextCurate]_vars

-----------------------------------------------------------------------------
(* The documents a load may find in yark.json *)

MaxStoredVersion == 4  \* stored versions are 0..MaxStoredVersion
MaxStored == 2         \* videos of a stored document

StoredDict(id, flag, ver) ==
    IF ver >= 3 THEN VideoToDict(Stored(id, flag))
    ELSE [id |-> id, uploaded |-> 1, title |-> ElementNew("t1")]

StoredList(n, gone, ver) == [k \in 1..n |-> StoredDict(DlIds[k], DlIds[k] \in gone, ver)]

(* Version 1 (and what claims to be older) has the channel id and videos   *)
(* only; version 2 has the url and the three collections; version 3 (and   *)
(* what claims to be newer) has the deleted history of every video.        *)
StoredDoc(ver, nv, nl, ns, gone) ==
    IF ver <= 1
    THEN [version |-> ver, id |-> "UC1", videos |-> StoredList(nv, gone, ver)]
    ELSE [version |-> ver, url |-> ChannelUrl, videos |-> StoredList(nv, gone, ver),
          livestreams |-> StoredList(nl, gone, ver), shorts |-> StoredList(ns, gone, ver)]

StoredDocs ==
    {StoredDoc(ver, nv, nl, ns, gone) :
        ver \in 0..MaxStoredVersion, nv \in 0..MaxStored, nl \in 0..1, ns \in 0..1,
        gone \in SUBSET {"a"}}

InitStored(docs) ==
    /\ proc = "none"
    /\ version = 0
    /\ url = ""
    /\ videos = <<>>
    /\ livestreams = <<>>
    /\ shorts = <<>>
    /\ reporter = [added |-> <<>>, deleted |-> <<>>]
    /\ disk \in docs
    /\ bak = NoFile
    /\ files = {}
    /\ dl = IdleDl
    /\ nrefresh = 0
    /\ ev = [op |-> "init"]
    /\ trk = NoLineage
    /\ dtrk = NoLineage
    /\ rf = IdleRf

InitLoad == InitStored(StoredDocs \cup {NoFile})

NextLoad ==
    \/ LoadNotFound
    \/ LoadExit
    \/ LoadOk
    \/ Commit

SpecLoad == InitLoad /\ [][NextLoad]_vars

-----------------------------------------------------------------------------
(* Properties of the refresh *)

ItemOf(bucket, id) == bucket[IndexOfId(bucket, id)]

(* The appends of a video to the deleted bucket since the snapshot pre *)
NewlyDeleted(pre, kind, id) ==
    Count(reporter.deleted, Ref(kind, id)) - Count(pre.reporter.deleted, Ref(kind, id))

SnapshotCounts(bucket) ==
    [k \in DOMAIN bucket |-> <<bucket[k].id, Len(bucket[k].title), Len(bucket[k].deleted)>>]

HasUnknownKind(res) ==
    /\ IsNested(res)
    /\ \E g \in DOMAIN res.entries : ~KnownKind(KindOf(res.entries[g].title))

(* C1: after a completed refresh, every video of the three collections     *)
(* that the refresh did not observe and whose deletion flag was false is   *)
(* flagged deleted and was appended to the deleted bucket exactly once by  *)
(* that refresh; a video that was already flagged is not appended again;   *)
(* an observed video is neither flagged nor appended.                      *)
C1_SweepFlagsEveryUnobserved ==
    ev.op = "refresh" =>
        \A kind \in Kinds :
            /\ \A k \in DOMAIN ev.pre[kind] :
                 LET p == ev.pre[kind][k]
                     c == ItemOf(Bucket(kind), p.id)
                 IN  IF p.id \in Observed(ev.res, kind)
                     THEN NewlyDeleted(ev.pre, kind, p.id) = 0 /\ Current(c.deleted) = FALSE
                     ELSE IF Current(p.deleted) = FALSE
                          THEN NewlyDeleted(ev.pre, kind, p.id) = 1 /\ Current(c.deleted) = TRUE
                          ELSE NewlyDeleted(ev.pre, kind, p.id) = 0 /\ Current(c.deleted) = TRUE
            /\ \A k \in DOMAIN Bucket(kind) :
                 Bucket(kind)[k].id \in Observed(ev.res, kind) =>
                    /\ Current(Bucket(kind)[k].deleted) = FALSE
                    /\ NewlyDeleted(ev.pre, kind, Bucket(kind)[k].id) = 0

(* C2: a video merged by one refresh and absent from the document of the   *)
(* next refresh of the archive (phase 2), and also from that of the third  *)
(* (phase 3), is flagged deleted from the second refresh on, and those     *)
(* refreshes appended it to the deleted bucket exactly once in total,      *)
(* with or without a commit and a load between the refreshes.              *)
C2_AbsentOnceDeleted ==
    \A key \in Keys :
        trk.ph[key] \in {2, 3} =>
            /\ Current(ItemOf(Bucket(key[1]), key[2]).deleted) = TRUE
            /\ trk.apps[key] = 1

(* C3: a refresh with the document of the refresh before it appends        *)
(* nothing to the added and the deleted bucket and leaves the snapshot     *)
(* count of every history unchanged.                                       *)
C3_SameDocumentChangesNothing ==
    (ev.op = "refresh" /\ ev.same) =>
        /\ reporter = ev.pre.reporter
        /\ \A kind \in Kinds : SnapshotCounts(Bucket(kind)) = SnapshotCounts(ev.pre[kind])

(* C4: a nested document with a group of an unknown kind changes no        *)
(* collection and no bucket of the reporter.                               *)
C4_UnknownKindChangesNothing ==
    (ev.op = "refresh" /\ HasUnknownKind(ev.res)) =>
        /\ videos = ev.pre.videos
        /\ livestreams = ev.pre.livestreams
        /\ shorts = ev.pre.shorts
        /\ reporter = ev.pre.reporter

-----------------------------------------------------------------------------
(* Properties of the download *)

(* C5: after a private/removed failure at the k-th pending video, that     *)
(* video is the one flagged deleted (appended to the deleted bucket only   *)
(* if it was not flagged before) and no other video changed; the pending   *)
(* list is what followed the k-th video and goes to the engine next; the   *)
(* outer attempt is the same.  Only unclassified failures use up attempts, *)
(* so a run without one ends in its first attempt.                         *)
C5_PrivateSkipsFailedVideo ==
    /\ ev.op = "dl_private" =>
         LET f == ev.failed
             p == ev.pre[f.kind][f.ind]
         IN  /\ VideoAt(f) = [p EXCEPT !.deleted = IF Current(p.deleted) = FALSE
                                                   THEN Append(p.deleted, TRUE)
                                                   ELSE p.deleted]
             /\ Current(VideoAt(f).deleted) = TRUE
             /\ reporter.added = ev.pre.reporter.added
             /\ reporter.deleted = IF Current(p.deleted) = FALSE
                                   THEN Append(ev.pre.reporter.deleted, Ref(f.kind, p.id))
                                   ELSE ev.pre.reporter.deleted
             /\ \A kind \in Kinds : \A ind \in DOMAIN Bucket(kind) :
                    Item(kind, ind) # f => Bucket(kind)[ind] = ev.pre[kind][ind]
             /\ dl.not_downloaded = SubSeq(ev.pre.list, ev.k + 1, Len(ev.pre.list))
             /\ dl.pc = "fetch"
             /\ dl.i = ev.pre.i
    /\ dl.pc \in {"fetch", "done"} => dl.i = dl.others
    /\ (dl.pc = "done" /\ dl.others = 0) => dl.i = 0

(* A batch of three whose second video failed as private, done in the      *)
(* first attempt                                                           *)
C5_Witness ==
    /\ dl.pc = "done"
    /\ dl.i = 0
    /\ Len(dl.curated) = 3
    /\ dl.skips = <<[item |-> dl.curated[2], why |-> "deleted", warning |-> FALSE]>>
    /\ Current(VideoAt(dl.curated[2]).deleted) = TRUE
    /\ reporter.deleted = <<Ref(dl.curated[2].kind, VideoAt(dl.curated[2]).id)>>
    /\ IdsOf(dl.curated) \ {VideoAt(dl.curated[2]).id} \subseteq files

(* C6: download makes at most MaxAttempts (5) attempts; every attempt that *)
(* ended in an unclassified failure but the fifth was followed by a wait   *)
(* and the next attempt; the fifth failure ends the process; download      *)
(* returns only from an attempt without such a failure, which is its last. *)
C6_FiveAttempts ==
    dl.pc # "idle" =>
        /\ dl.i \in 0..(MaxAttempts - 1)
        /\ dl.curates = dl.i + 1
        /\ dl.curates <= MaxAttempts
        /\ dl.pc \in {"fetch", "done"} => (dl.others = dl.i /\ dl.waits = dl.i)
        /\ dl.pc = "done" => (dl.others < MaxAttempts /\ proc = "open")
        /\ (dl.pc = "exited") <=> (proc = "exited")
        /\ (dl.pc = "exited") <=> (dl.others = MaxAttempts)
        /\ dl.pc = "exited" => (dl.waits = MaxAttempts - 1 /\ dl.curates = MaxAttempts)
        /\ (ev.op = "dl_other" /\ ev.pre.i < MaxAttempts - 1) =>
              (dl.pc = "fetch" /\ dl.i = ev.pre.i + 1)

(* The fifth attempt failed *)
C6_Witness ==
    /\ proc = "exited"
    /\ ev.op = "dl_other"
    /\ dl.others = 5
    /\ dl.waits = 4

-----------------------------------------------------------------------------
(* Properties of the curation *)

Maximum(config, kind) ==
    IF kind = "videos" THEN config.max_videos
    ELSE IF kind = "livestreams" THEN config.max_livestreams ELSE config.max_shorts

(* The items of one category in a curated list, in the order of the list *)
OfKind(list, kind) == SelectSeq(list, LAMBDA item : item.kind = kind)

(* The undownloaded videos among the first n of a collection, in order *)
UndownloadedPrefix(kind, n) ==
    LET picks == Ascending({k \in 1..n : ~Downloaded(Bucket(kind)[k], files)})
    IN  [k \in DOMAIN picks |-> Item(kind, picks[k])]

(* C7: for a category with maximum N, curate returns the undownloaded      *)
(* videos among the first min(N, L) of the collection of length L.         *)
C7_CapIsMinOfMaximumAndLength ==
    ev.op = "curate" =>
        \A kind \in Kinds :
            Maximum(ev.config, kind) # None =>
                OfKind(ev.result, kind)
                    = UndownloadedPrefix(kind, Min(Maximum(ev.config, kind)[1], Len(Bucket(kind))))

(* C8: curate returns undownloaded videos only, those of videos first,     *)
(* then those of livestreams, then those of shorts, each in the order of   *)
(* its collection; at most N, from the first N, of a category with maximum *)
(* N, none of a category with maximum 0, and every undownloaded video of a *)
(* category without a maximum.                                             *)
C8_CurateOrderedUndownloaded ==
    ev.op = "curate" =>
        /\ \A k \in DOMAIN ev.result :
              /\ ev.result[k].ind \in DOMAIN Bucket(ev.result[k].kind)
              /\ ~Downloaded(VideoAt(ev.result[k]), files)
        /\ ev.result = OfKind(ev.result, "videos") \o OfKind(ev.result, "livestreams")
                          \o OfKind(ev.result, "shorts")
        /\ \A kind \in Kinds :
              LET l == OfKind(ev.result, kind)
                  m == Maximum(ev.config, kind)
              IN  /\ \A j, k \in DOMAIN l : j < k => l[j].ind < l[k].ind
                  /\ m # None =>
                        (Len(l) <= m[1] /\ \A k \in DOMAIN l : l[k].ind <= m[1])
                  /\ m = <<0>> => l = <<>>
                  /\ m = None => l = UndownloadedPrefix(kind, Len(Bucket(kind)))

(* Three undownloaded videos and a maximum of 2, livestreams without a     *)
(* maximum, shorts with maximum 0                                          *)
C8_Witness ==
    /\ ev.op = "curate"
    /\ Len(videos) = 3 /\ Len(livestreams) = 2 /\ Len(shorts) = 1
    /\ files = {}
    /\ ev.config = DownloadConfig(<<2>>, None, <<0>>)
    /\ ev.result = <<Item("videos", 1), Item("videos", 2),
                     Item("livestreams", 1), Item("livestreams", 2)>>

-----------------------------------------------------------------------------
(* Properties of load and migration *)

(* C9: the load of a document stored at version 1 or 2 takes one step per  *)
(* version in increasing order, each leaving the next version number in    *)
(* the document, and stops at ARCHIVE_COMPAT; after every load that        *)
(* returns, the version of the channel is ARCHIVE_COMPAT.                  *)
C9_MigratesStepByStep ==
    ev.op = "load" =>
        /\ version = ARCHIVE_COMPAT
        /\ ev.encoded.version = ARCHIVE_COMPAT
        /\ ev.stored \in {1, 2} =>
              /\ Len(ev.steps) = ARCHIVE_COMPAT - ev.stored
              /\ \A k \in DOMAIN ev.steps :
                    /\ ev.steps[k].from = ev.stored + k - 1
                    /\ ev.steps[k].doc.version = ev.stored + k
              /\ ev.steps[Len(ev.steps)].doc = ev.encoded
        /\ ev.stored = ARCHIVE_COMPAT => ev.steps = <<>>

(* A version 1 document with videos, loaded in two steps *)
C9_Witness ==
    /\ ev.op = "load"
    /\ ev.stored = 1
    /\ Len(ev.steps) = 2
    /\ Len(videos) = 2
    /\ version = 3

(* C10: a stored version below 1 or above ARCHIVE_COMPAT never loads: the  *)
(* migration takes no step, the process ends, and no channel is made of    *)
(* the document.                                                           *)
C10_UnknownVersionExits ==
    /\ ev.op = "load" => ev.stored \in 1..ARCHIVE_COMPAT
    /\ ev.op = "load_exit" =>
          /\ ev.stored \notin 1..ARCHIVE_COMPAT
          /\ ev.steps = <<>>
          /\ proc = "exited"
          /\ Snapshot = ev.pre
    /\ (disk # NoFile /\ disk.version \notin 1..ARCHIVE_COMPAT) => proc # "open"

(* A document that claims a version below 1 ended the process *)
C10_Witness ==
    /\ ev.op = "load_exit"
    /\ ev.stored < 1
    /\ Len(disk.videos) > 0
    /\ proc = "exited"

(* C11: the migration of the document that a load produced (from version  *)
(* 1 in particular) returns it as it is, without a step; the load of a     *)
(* document at ARCHIVE_COMPAT does not call the migration and decodes the  *)
(* stored document itself.                                                 *)
C11_MigrationIdempotent ==
    ev.op = "load" =>
        /\ MigrateArchive(ev.encoded.version, ARCHIVE_COMPAT, ev.encoded)
              = [exit |-> FALSE, encoded |-> ev.encoded, steps |-> <<>>]
        /\ LoadDoc(ev.encoded)
              = [exit |-> FALSE, encoded |-> ev.encoded, steps |-> <<>>, migrated |-> FALSE]
        /\ ev.migrated <=> (ev.stored # ARCHIVE_COMPAT)
        /\ ev.stored = ARCHIVE_COMPAT => ev.encoded = disk

(* The load of the committed output of a migration from version 1 *)
C11_Witness ==
    /\ ev.op = "load"
    /\ ev.stored = ARCHIVE_COMPAT
    /\ ~ev.migrated
    /\ bak # NoFile
    /\ bak.body.version = 1
    /\ Len(videos) = 2

-----------------------------------------------------------------------------
(* Properties of the files of the archive *)

Loaded(c) == <<c.version, c.url, c.videos, c.livestreams, c.shorts>>

(* C12: a commit (that of Channel.new too) that finds a live document      *)
(* leaves in the backup, after the comment header, the live document as it *)
(* was before the commit, whatever the backup held; a commit that finds no *)
(* live document writes no backup; a load makes the channel of the live    *)
(* document alone and leaves the backup as it is.                          *)
C12_BackupHoldsPreviousDocument ==
    /\ ev.op \in {"commit", "new"} =>
          /\ ev.live # NoFile => bak = [comment |-> BackupHeader, body |-> ev.live]
          /\ ev.live = NoFile => (bak = ev.bak /\ bak = NoFile)
          /\ disk = ToDict(version, url, videos, livestreams, shorts)
    /\ ev.op = "load" =>
          /\ archive = Loaded(FromDict(LoadDoc(ev.live).encoded))
          /\ bak = ev.bak
          /\ disk = ev.live

(* A commit that replaced both a live document and an older backup *)
C12_Witness ==
    /\ ev.op = "commit"
    /\ ev.live # NoFile
    /\ ev.bak # NoFile
    /\ ev.bak.body # ev.live
    /\ disk # ev.live
    /\ bak.body = ev.live

-----------------------------------------------------------------------------
(* Every operation, on an archive found on disk *)

(* Channel.search: the video of self.videos with the id, or                *)
(* VideoNotFoundException                                                  *)
Search(id) ==
    /\ proc = "open"
    /\ Quiet
    /\ ev.op # "search"
    /\ ev' = [op |-> "search", id |-> id, found |-> IndexOfId(videos, id)]
    /\ UNCHANGED <<proc, archive, reporter, disk, bak, files, dl, nrefresh, trk, dtrk, rf>>

FileConfigs == {DownloadConfig(None, None, None)}

(* One stored video at most, at every version; one document; one id *)
FileStoredDocs == {StoredDoc(ver, nv, 0, 0, {}) : ver \in 0..MaxStoredVersion, nv \in 0..1}

FileDocs == {[entries |-> <<Entry("b", "t1", 1)>>]}

FileIds == {"a"}

NextFiles ==
    \/ New(ChannelUrl)
    \/ Commit
    \/ LoadNotFound
    \/ LoadExit
    \/ LoadOk
    \/ MetadataRaises
    \/ \E res \in FileDocs : Metadata(res, 0)
    \/ \E config \in FileConfigs : CurateCall(config)
    \/ \E id \in FileIds : Search(id)
    \/ \E config \in FileConfigs : DownloadStart(config)
    \/ FetchOk
    \/ \E k \in 1..(3 * MaxItems) : FetchPrivate(k)
    \/ \E k \in 1..(3 * MaxItems) : FetchNoFormat(k)
    \/ \E k \in 1..(3 * MaxItems) : FetchOther(k)

InitFiles == InitStored(FileStoredDocs \cup {NoFile})

SpecFiles == InitFiles /\ [][NextFiles]_vars


-----------------------------------------------------------------------------
(* Properties of the collections *)

IdsIn(bucket) == {bucket[k].id : k \in DOMAIN bucket}

Distinct(bucket) == \A j, k \in DOMAIN bucket : bucket[j].id = bucket[k].id => j = k

(* The videos that a refresh of document res creates in a category *)
NewIds(pre, res, kind) == Observed(res, kind) \ IdsIn(pre[kind])

(* What was appended to a list that was as before *)
Appended(before, after) == SubSeq(after, Len(before) + 1, Len(after))

(* C14: no collection holds two videos with one id; a refresh creates one  *)
(* video, recorded once in the added bucket, for every id among the        *)
(* entries with formats of a category that the collection did not hold,    *)
(* however often the id occurs in the document, and nothing else.          *)
C14_IdsUnique ==
    /\ \A kind \in Kinds : Distinct(Bucket(kind))
    /\ ev.op = "refresh" =>
          LET new == Appended(ev.pre.reporter.added, reporter.added)
          IN  /\ \A kind \in Kinds :
                    /\ IdsIn(Bucket(kind)) = IdsIn(ev.pre[kind]) \cup Observed(ev.res, kind)
                    /\ Len(Bucket(kind))
                          = Len(ev.pre[kind]) + Cardinality(NewIds(ev.pre, ev.res, kind))
                    /\ \A id \in Ids :
                          Count(new, Ref(kind, id))
                             = IF id \in NewIds(ev.pre, ev.res, kind) THEN 1 ELSE 0
              /\ SubSeq(reporter.added, 1, Len(ev.pre.reporter.added)) = ev.pre.reporter.added
              /\ \A k \in DOMAIN new : new[k].kind \in Kinds /\ new[k].id \in Ids

(* A document with one id twice made one video, and a later refresh with   *)
(* that id made none                                                       *)
C14_Witness ==
    /\ ev.op = "refresh"
    /\ ~IsNested(ev.res)
    /\ Len(ev.res.entries) = 2
    /\ ev.res.entries[1].id = "a" /\ ev.res.entries[2].id = "a"
    /\ HasFormats(ev.res.entries[1]) /\ HasFormats(ev.res.entries[2])
    /\ IdsIn(ev.pre.videos) = {"b"}
    /\ Len(videos) = 2
    /\ reporter.added = <<Ref("videos", "b"), Ref("videos", "a")>>


(* C15: a refresh and every step of a download keep every video of every   *)
(* collection; a video that the refresh did not observe, and the video     *)
(* that failed as private or removed, is in its collection, flagged        *)
(* deleted, after it.                                                      *)
C15_KeptAndFlagged ==
    /\ ev.op \in {"refresh", "dl_ok", "dl_private", "dl_noformat", "dl_other"} =>
          \A kind \in Kinds : IdsIn(ev.pre[kind]) \subseteq IdsIn(Bucket(kind))
    /\ ev.op = "refresh" =>
          \A kind \in Kinds :
              \A id \in IdsIn(ev.pre[kind]) \ Observed(ev.res, kind) :
                  /\ id \in IdsIn(Bucket(kind))
                  /\ Current(ItemOf(Bucket(kind), id).deleted) = TRUE
    /\ ev.op = "dl_private" =>
          /\ ev.failed.ind \in DOMAIN Bucket(ev.failed.kind)
          /\ VideoAt(ev.failed).id = ev.pre[ev.failed.kind][ev.failed.ind].id
          /\ Current(VideoAt(ev.failed).deleted) = TRUE


-----------------------------------------------------------------------------
(* Properties of the entries without formats *)

NoFormats(entry) == "formats" \notin DOMAIN entry \/ entry.formats = <<>>

WithFormats(entries) == SelectSeq(entries, LAMBDA e : ~NoFormats(e))

(* The document without its entries without formats, one group a category *)
Stripped(res) ==
    LET n == Normalize(res)
    IN  [entries |-> <<[title |-> <<"Videos">>, entries |-> WithFormats(n.videos)],
                       [title |-> <<"LIVE">>, entries |-> WithFormats(n.livestreams)],
                       [title |-> <<"Shorts">>, entries |-> WithFormats(n.shorts)]>>]

(* The ids that a category of the document has in entries without formats  *)
(* only                                                                    *)
Formatless(res, kind) ==
    LET l == Normalize(res)[kind]
    IN  {l[k].id : k \in {j \in DOMAIN l : NoFormats(l[j])}}
            \ {l[k].id : k \in {j \in DOMAIN l : ~NoFormats(l[j])}}

-----------------------------------------------------------------------------
(* Properties of the order of a collection *)

(* The place of the first entry with formats of a video in its category *)
FirstSeen(res, kind, id) ==
    LET l == Normalize(res)[kind]
    IN  CHOOSE k \in DOMAIN l :
            /\ l[k].id = id /\ ~NoFormats(l[k])
            /\ \A j \in 1..(k - 1) : ~(l[j].id = id /\ ~NoFormats(l[j]))

(* a was met before b: in the archive before the refresh, or else in the   *)
(* document                                                                *)
MetBefore(pre, res, kind, a, b) ==
    IF a \in IdsIn(pre[kind])
    THEN b \in IdsIn(pre[kind]) => IndexOfId(pre[kind], a) < IndexOfId(pre[kind], b)
    ELSE /\ b \notin IdsIn(pre[kind])
         /\ FirstSeen(res, kind, a) < FirstSeen(res, kind, b)

(* C17: after a refresh every collection has the later upload first, and   *)
(* videos of one upload time in the order they were met: those of the      *)
(* archive as they stood, before those that the refresh appended, which    *)
(* are in the order of the document.                                       *)
C17_NewestFirstStable ==
    ev.op = "refresh" =>
        \A kind \in Kinds : \A j, k \in DOMAIN Bucket(kind) :
            j < k =>
                /\ Bucket(kind)[j].uploaded >= Bucket(kind)[k].uploaded
                /\ Bucket(kind)[j].uploaded = Bucket(kind)[k].uploaded
                      => MetBefore(ev.pre, ev.res, kind, Bucket(kind)[j].id, Bucket(kind)[k].id)

(* A video appended behind an archived one of the same upload time, by a   *)
(* document that names the new one first                                   *)
C17_Witness ==
    /\ ev.op = "refresh"
    /\ ~IsNested(ev.res)
    /\ Len(ev.res.entries) = 2
    /\ ev.res.entries[1].id = "b" /\ ev.res.entries[2].id = "a"
    /\ HasFormats(ev.res.entries[1])
    /\ IdsIn(ev.pre.videos) = {"a"}
    /\ Len(videos) = 2
    /\ videos[1].id = "a" /\ videos[2].id = "b"
    /\ videos[1].uploaded = videos[2].uploaded


-----------------------------------------------------------------------------
(* More properties of the download *)

(* C18: after a failure for want of a format at the k-th pending video the *)
(* pending list is what followed that video and goes to the engine next,   *)
(* in the same attempt, as after a private or removed failure; the skip of *)
(* the failed video is reported as a warning; no video and no bucket of    *)
(* the reporter has changed.                                               *)
C18_NoFormatSkipsWithoutFlag ==
    /\ ev.op = "dl_noformat" =>
          /\ dl.not_downloaded = SubSeq(ev.pre.list, ev.k + 1, Len(ev.pre.list))
          /\ dl.pc = "fetch"
          /\ dl.i = ev.pre.i
          /\ dl.skips # <<>>
          /\ dl.skips[Len(dl.skips)]
                = [item |-> ev.failed, why |-> "no format", warning |-> TRUE]
          /\ videos = ev.pre.videos
          /\ livestreams = ev.pre.livestreams
          /\ shorts = ev.pre.shorts
          /\ reporter = ev.pre.reporter
          /\ ~Downloaded(VideoAt(ev.failed), files)
    /\ ev.op = "dl_private" =>
          /\ dl.not_downloaded = SubSeq(ev.pre.list, ev.k + 1, Len(ev.pre.list))
          /\ dl.skips[Len(dl.skips)]
                = [item |-> ev.failed, why |-> "deleted", warning |-> FALSE]
    /\ dl.pc \in {"fetch", "done"} => dl.others = dl.i

(* The second of three videos failed for want of a format, and the         *)
(* download ended in its first attempt with the video unflagged            *)
C18_Witness ==
    /\ dl.pc = "done"
    /\ dl.i = 0
    /\ Len(dl.curated) = 3
    /\ dl.skips = <<[item |-> dl.curated[2], why |-> "no format", warning |-> TRUE]>>
    /\ Current(VideoAt(dl.curated[2]).deleted) = FALSE
    /\ reporter.deleted = <<>>
    /\ VideoAt(dl.curated[2]).id \notin files
    /\ VideoAt(dl.curated[3]).id \in files


(* C19: every attempt starts from the list that _curate makes of the       *)
(* archive and the media files as they are then; a video found private or  *)
(* removed earlier in the run (dl.found) is in no list that goes to the    *)
(* engine afterwards.                                                      *)
C19_RecuratedWithoutDeleted ==
    /\ (ev.op \in {"download", "dl_other"} /\ dl.pc \in {"fetch", "done"}) =>
          /\ dl.curated = Curate(dl.config, videos, livestreams, shorts, files)
          /\ dl.not_downloaded = dl.curated
    /\ dl.pc = "fetch" =>
          \A k \in DOMAIN dl.not_downloaded : dl.not_downloaded[k] \notin dl.found


-----------------------------------------------------------------------------
(* Properties of the metadata fetch *)

(* C20: a refresh calls the engine MetadataTries (3) times at most; it     *)
(* takes the result of the first call that returns, after one sleep for    *)
(* every call that failed before; after a third failure, with two sleeps   *)
(* behind it, the process ends and the archive and the reporter are as     *)
(* they were: nothing is merged and nothing is swept.                      *)
C20_ThreeMetadataTries ==
    /\ ev.op = "refresh" =>
          /\ ev.calls = ev.fails + 1
          /\ ev.calls <= MetadataTries
          /\ ev.waits = ev.fails
    /\ ev.op = "refresh_exit" =>
          /\ ev.fails >= MetadataTries
          /\ ev.calls = MetadataTries
          /\ ev.waits = MetadataTries - 1
          /\ proc = "exited"
          /\ Snapshot = ev.pre
    /\ proc = "exited" => ev.op = "refresh_exit"

(* The third call failed, on an archive with a video *)
C20_Witness ==
    /\ ev.op = "refresh_exit"
    /\ ev.calls = 3
    /\ proc = "exited"
    /\ Len(videos) = 2
    /\ reporter.deleted = <<>>

-----------------------------------------------------------------------------
(* Channel.metadata step by step: the primary flow and the worker threads  *)
(* of its two offloads.  A worker is a record [job, st]; it exists from    *)
(* ex.submit until the end of the `with ThreadPoolExecutor()` block.       *)

StageKinds == <<"videos", "livestreams", "shorts">>

Worker(job, st) == [job |-> job, st |-> st]

Event(job, what) == [job |-> job, what |-> what]

LeaveWithoutWaiting(workers) == TRUE

(* The end of a `with ThreadPoolExecutor()` block: shutdown(wait=True)     *)
(* returns when every worker of the executor has finished                  *)
Leave(workers) == \A w \in workers : w.st = "done"

(* The worker threads alive after the block *)
Alive(workers) == {w \in workers : w.st # "done"}

(* metadata: ex.submit(self._download_metadata) *)
MetadataSubmit ==
    /\ proc = "open"
    /\ Quiet
    /\ nrefresh < MaxRefresh
    /\ rf' = [pc |-> "fetching", workers |-> {Worker("fetch", "running")},
              log |-> <<Event("fetch", "start")>>, pre |-> Snapshot,
              res |-> NoRes, n |-> NoRes, stage |-> 0]
    /\ UNCHANGED <<proc, archive, reporter, disk, bak, files, dl, nrefresh, ev, trk, dtrk>>

(* The worker of metadata: _download_metadata returns the document res *)
DownloadMetadataRun(res) ==
    /\ Worker("fetch", "running") \in rf.workers
    /\ rf' = [rf EXCEPT !.workers = (@ \ {Worker("fetch", "running")})
                                        \cup {Worker("fetch", "done")},
                        !.log = Append(@, Event("fetch", "end")),
                        !.res = res]
    /\ UNCHANGED <<proc, archive, reporter, disk, bak, files, dl, nrefresh, ev, trk, dtrk>>

(* metadata: future.result() once the worker is done, the block is left,   *)
(* and _parse_metadata starts: res["entries"][0] raises on a document      *)
(* without entries, else the document is normalised                        *)
MetadataResult ==
    /\ rf.pc = "fetching"
    /\ Worker("fetch", "done") \in rf.workers
    /\ Leave(rf.workers)
    /\ IF rf.res.entries = <<>>
       THEN /\ rf' = IdleRf
            /\ nrefresh' = nrefresh + 1
            /\ ev' = [op |-> "refresh_raise"]
       ELSE /\ rf' = [rf EXCEPT !.pc = "parse", !.workers = Alive(@), !.stage = 1,
                                !.n = Normalize(rf.res)]
            /\ UNCHANGED <<nrefresh, ev>>
    /\ UNCHANGED <<proc, archive, reporter, disk, bak, files, dl, trk, dtrk>>

(* _parse_metadata_videos: ex.submit(self._parse_metadata_videos_comp, i, bucket) *)
ParseMetadataVideosSubmit ==
    /\ rf.pc = "parse"
    /\ rf' = [rf EXCEPT !.pc = "parsing",
                        !.workers = @ \cup {Worker(StageKinds[rf.stage], "running")},
                        !.log = Append(@, Event(StageKinds[rf.stage], "start"))]
    /\ UNCHANGED <<proc, archive, reporter, disk, bak, files, dl, nrefresh, ev, trk, dtrk>>

(* The worker of _parse_metadata_videos: _parse_metadata_videos_comp       *)
(* merges the entries of its category into its bucket and sorts it         *)
ParseMetadataVideosCompRun(kind) ==
    /\ Worker(kind, "running") \in rf.workers
    /\ LET m == ParseMetadataVideosComp(rf.n[kind], Bucket(kind), reporter.added, kind)
       IN  /\ videos' = IF kind = "videos" THEN m.bucket ELSE videos
           /\ livestreams' = IF kind = "livestreams" THEN m.bucket ELSE livestreams
           /\ shorts' = IF kind = "shorts" THEN m.bucket ELSE shorts
           /\ reporter' = [reporter EXCEPT !.added = m.added]
    /\ rf' = [rf EXCEPT !.workers = (@ \ {Worker(kind, "running")})
                                        \cup {Worker(kind, "done")},
                        !.log = Append(@, Event(kind, "end"))]
    /\ UNCHANGED <<proc, version, url, disk, bak, files, dl, nrefresh, ev, trk, dtrk>>

(* _parse_metadata_videos returns: future.done() was seen and the block is *)
(* left; _parse_metadata goes on with the next category or with the sweep  *)
ParseMetadataVideosReturn ==
    /\ rf.pc = "parsing"
    /\ Leave(rf.workers)
    /\ rf' = [rf EXCEPT !.pc = IF rf.stage < Len(StageKinds) THEN "parse" ELSE "sweep",
                        !.workers = Alive(@),
                        !.stage = IF rf.stage < Len(StageKinds) THEN @ + 1 ELSE @]
    /\ UNCHANGED <<proc, archive, reporter, disk, bak, files, dl, nrefresh, ev, trk, dtrk>>

(* _parse_metadata: the three _report_deleted calls, and metadata returns *)
ReportDeletedAll ==
    /\ rf.pc = "sweep"
    /\ LET dv == ReportDeleted(videos, reporter.deleted, "videos")
           dl_ == ReportDeleted(livestreams, dv.deleted, "livestreams")
           ds == ReportDeleted(shorts, dl_.deleted, "shorts")
       IN  /\ videos' = dv.bucket
           /\ livestreams' = dl_.bucket
           /\ shorts' = ds.bucket
           /\ reporter' = [reporter EXCEPT !.deleted = ds.deleted]
           /\ trk' = Lineage(trk, rf.res, rf.pre.reporter.deleted, ds.deleted)
    /\ ev' = [op |-> "refresh_steps", res |-> rf.res, pre |-> rf.pre, log |-> rf.log,
              workers |-> rf.workers]
    /\ nrefresh' = nrefresh + 1
    /\ rf' = [IdleRf EXCEPT !.workers = rf.workers]
    /\ UNCHANGED <<proc, version, url, disk, bak, files, dl, dtrk>>

(* The documents of the step-by-step refresh *)
WorkerDocs ==
    ReloadDocs
    \cup {d \in NestedDocs : Len(d.entries) = MaxGroups
                               /\ d.entries[1].title = <<"Chan", Sep, "Videos">>}

NextWorkers ==
    \/ New(ChannelUrl)
    \/ MetadataSubmit
    \/ \E res \in WorkerDocs : DownloadMetadataRun(res)
    \/ MetadataResult
    \/ ParseMetadataVideosSubmit
    \/ \E kind \in Kinds : ParseMetadataVideosCompRun(kind)
    \/ ParseMetadataVideosReturn
    \/ ReportDeletedAll

SpecWorkers == Init /\ [][NextWorkers]_vars

(* The order of the offloads of one refresh *)
OffloadOrder ==
    <<Event("fetch", "start"), Event("fetch", "end"),
      Event("videos", "start"), Event("videos", "end"),
      Event("livestreams", "start"), Event("livestreams", "end"),
      Event("shorts", "start"), Event("shorts", "end")>>

(* The job the primary flow is waiting for *)
AwaitedJob ==
    IF rf.pc = "fetching" THEN "fetch"
    ELSE IF rf.pc = "parsing" THEN StageKinds[rf.stage] ELSE "none"

(* C21: at most one worker thread exists at any moment; the fetch and the  *)
(* three merges start and end strictly one after another; a worker runs    *)
(* only while the primary flow waits for that very job, so the primary     *)
(* flow starts the next merge and runs the deletion sweep only with no     *)
(* worker left.                                                            *)
C21_OneWorkerAtATime ==
    /\ Cardinality(rf.workers) <= 1
    /\ Len(rf.log) <= Len(OffloadOrder)
    /\ rf.log = SubSeq(OffloadOrder, 1, Len(rf.log))
    /\ \A w \in rf.workers : w.job = AwaitedJob
    /\ rf.pc \in {"idle", "parse", "sweep"} => rf.workers = {}

C21_Witness ==
    /\ rf.pc = "sweep"
    /\ rf.log = OffloadOrder
    /\ rf.workers = {}
    /\ videos # <<>>
    /\ livestreams # <<>>

(* A refresh made step by step leaves the archive as _parse_metadata does *)
StepsRefineParseMetadata ==
    ev.op = "refresh_steps" /\ rf.pc = "idle" =>
        LET p == ParseMetadata(ev.res, ev.pre.videos, ev.pre.livestreams, ev.pre.shorts,
                               ev.pre.reporter)
        IN  /\ videos = p.videos
            /\ livestreams = p.livestreams
            /\ shorts = p.shorts
            /\ reporter = p.reporter

-----------------------------------------------------------------------------
(* Properties of the migration steps *)

(* The document a step of the last load started from *)
StepInput(k) == IF k = 1 THEN ev.live ELSE ev.steps[k - 1].doc

(* The items of after are those of before in number and order, each with   *)
(* a deleted history whose current value is false and its other fields as  *)
(* they were                                                               *)
SameItemsWithDeleted(before, after) ==
    /\ Len(after) = Len(before)
    /\ \A k \in DOMAIN before :
          /\ DOMAIN after[k] = DOMAIN before[k] \cup {"deleted"}
          /\ Current(after[k].deleted) = FALSE
          /\ \A f \in DOMAIN before[k] \ {"deleted"} : after[k][f] = before[k][f]

(* C22: the step from version 1 replaces id by url = the channel url       *)
(* prefix followed by id, adds empty livestreams and shorts and leaves the *)
(* videos as they were; the step from version 2 gives every item of the    *)
(* three collections a deleted history whose current value is false and    *)
(* changes neither the number, the order nor any other field of the items, *)
(* nor the url.                                                            *)
C22_StepsTransformOnlyTheirFields ==
    ev.op = "load" =>
        \A k \in DOMAIN ev.steps :
            LET before == StepInput(k)
                after == ev.steps[k].doc
            IN  /\ ev.steps[k].from = 1 =>
                      /\ "id" \notin DOMAIN after
                      /\ after.url = UrlPrefix \o before.id
                      /\ after.livestreams = <<>>
                      /\ after.shorts = <<>>
                      /\ after.videos = before.videos
                      /\ DOMAIN after = (DOMAIN before \ {"id"})
                                            \cup {"url", "livestreams", "shorts"}
                /\ ev.steps[k].from = 2 =>
                      /\ after.url = before.url
                      /\ DOMAIN after = DOMAIN before
                      /\ SameItemsWithDeleted(before.videos, after.videos)
                      /\ SameItemsWithDeleted(before.livestreams, after.livestreams)
                      /\ SameItemsWithDeleted(before.shorts, after.shorts)

(* A version 2 document with items in all three collections, loaded in one *)
(* step                                                                    *)
C22_Witness ==
    /\ ev.op = "load"
    /\ ev.stored = 2
    /\ Len(ev.steps) = 1
    /\ Len(ev.live.videos) = 2
    /\ ev.live.livestreams # <<>>
    /\ ev.live.shorts # <<>>
    /\ Len(videos) = 2

(* A version 1 document with videos, whose first step made the url *)
C22_WitnessFromOne ==
    /\ ev.op = "load"
    /\ ev.stored = 1
    /\ Len(ev.live.videos) = 2
    /\ ev.steps[1].doc.url = ChannelUrl

-----------------------------------------------------------------------------
(* Download: a classified failure with nothing left to skip *)

(* ydl.download(urls) raises a classified failure (private, removed or     *)
(* " bytes, expected ") although every url of the list has its media file  *)
(* by then, or the list is empty: _skip_video finds no undownloaded video  *)
(* and raises Exception, which the handler of the outer loop passes to     *)
(* _err_dl like any other failure                                          *)
FetchSkipRaises ==
    /\ proc = "open"
    /\ dl.pc = "fetch"
    /\ files' = files \cup IdsOf(dl.not_downloaded)
    /\ SkipVideo(dl.not_downloaded, files').raised
    /\ IF Retrying(dl.i)
       THEN /\ proc' = proc
            /\ dl' = IF dl.i + 1 < MaxAttempts
                     THEN Attempt([dl EXCEPT !.waits = @ + 1, !.others = @ + 1],
                                  dl.i + 1, files')
                     ELSE [dl EXCEPT !.waits = @ + 1, !.others = @ + 1, !.pc = "done",
                                     !.calls = @ + 1]
       ELSE /\ proc' = "exited"
            /\ dl' = [dl EXCEPT !.others = @ + 1, !.pc = "exited", !.calls = @ + 1]
    /\ ev' = [op |-> "dl_skip_raise", pre |-> DlSnapshot]
    /\ UNCHANGED <<archive, reporter, disk, bak, nrefresh, trk, dtrk, rf>>

(* Downloads of small archives with every outcome of the engine; each call *)
(* of the engine returns or raises, so a download that waits for the       *)
(* engine goes on                                                          *)
InitRetry ==
    \E nv \in 0..(MaxItems - 1), nl \in 0..1, fs \in SUBSET {"a"} :
        InitArchive(nv, nl, 0, {}, fs)

NextRetry ==
    \/ DownloadStart(DownloadConfig(None, None, None))
    \/ FetchOk
    \/ \E k \in 1..(3 * MaxItems) : FetchPrivate(k)
    \/ \E k \in 1..(3 * MaxItems) : FetchNoFormat(k)
    \/ \E k \in 1..(3 * MaxItems) : FetchOther(k)
    \/ FetchSkipRaises

SpecRetry == InitRetry /\ [][NextRetry]_vars /\ WF_vars(NextRetry)

(* The download is over: download returned or the process ended *)
DownloadOver == dl.pc \in {"done", "exited"}

(* What one call of the engine left behind *)
C23_Steps ==
    /\ dl.pc # "idle" =>
          /\ dl.calls <= Len(dl.curated) + 1
          /\ dl.i < MaxAttempts
          /\ Len(dl.not_downloaded) + Len(dl.skips) <= Len(dl.curated)
    /\ ev.op \in {"dl_ok", "dl_private", "dl_noformat", "dl_other", "dl_skip_raise"} =>
          ev.pre.calls + 1 <= Len(ev.pre.curated) + 1
    /\ ev.op \in {"dl_private", "dl_noformat"} =>
          /\ Len(dl.not_downloaded) < Len(ev.pre.list)
          /\ dl.i = ev.pre.i
          /\ dl.calls = ev.pre.calls + 1
    /\ ev.op = "dl_skip_raise" =>
          /\ \A k \in DOMAIN ev.pre.list : Downloaded(VideoAt(ev.pre.list[k]), files)
          /\ dl.others = ev.pre.i + 1
          /\ IF ev.pre.i < MaxAttempts - 1
             THEN dl.i = ev.pre.i + 1 /\ dl.calls = 0 /\ proc = "open"
             ELSE dl.pc = "exited" /\ proc = "exited"

(* C23: a download that waits for the engine ends, by returning or by      *)
(* ending the process.  Every classified failure leaves the pending list   *)
(* strictly shorter within the same pass, a pass makes at most             *)
(* Len(curated) + 1 calls of the engine, and a classified failure that     *)
(* finds no undownloaded video in the pending list uses up the pass of the *)
(* outer loop: the next pass starts, or the process ends after the fifth.  *)
C23_DownloadTerminates ==
    /\ []C23_Steps
    /\ (dl.pc = "fetch") ~> DownloadOver

(* A pass whose only video was skipped made its second call with an empty  *)
(* list, which raised a classified failure: the second pass is waiting     *)
C23_Witness ==
    /\ ev.op = "dl_skip_raise"
    /\ ev.pre.list = <<>>
    /\ Len(ev.pre.curated) = 1
    /\ ev.pre.calls = 1
    /\ dl.i = 1
    /\ dl.pc = "fetch"

-----------------------------------------------------------------------------
(* Search on archives with items in all collections *)

SearchIds == {DlIds[k] : k \in 1..(MaxItems + 1)}

InitSearch ==
    \E nv \in 0..MaxItems, nl \in 0..MaxItems, ns \in 0..1, gone \in SUBSET {"a"} :
        InitArchive(nv, nl, ns, gone, {})

NextSearch == \E id \in SearchIds : Search(id)

SpecSearch == InitSearch /\ [][NextSearch]_vars

(* The collections that hold an item with the identifier *)
Holding(id) == {kind \in Kinds : id \in IdsIn(Bucket(kind))}

(* C24: search(id) returns an item with the identifier id whenever one of  *)
(* the three collections of the archive holds such an item, raises the     *)
(* not-found error only when none does, and leaves the archive as it was.  *)
(* ev.found is the position in self.videos of the item returned, 0 when    *)
(* the not-found error was raised.  Violated: search looks through         *)
(* self.videos only.                                                       *)
C24_SearchFindsEveryItem ==
    ev.op = "search" =>
        /\ Holding(ev.id) # {} => ev.found # 0
        /\ ev.found = 0 => Holding(ev.id) = {}
        /\ ev.found # 0 => videos[ev.found].id = ev.id
        /\ disk = ToDict(version, url, videos, livestreams, shorts)

====
